---------------------------- MODULE Spec2Model ----------------------------
(***************************************************************************)
(* Model of dashboard/modules/economic_summary.py: the show() pipeline     *)
(* (load, validate, filter, melt, merge, winsorize, year range, and the    *)
(* six tabs) as a sequential state machine.                                *)
(*                                                                         *)
(* Representation:                                                         *)
(*   - a text that the code inspects character by character (column        *)
(*     labels, indicator names) is a sequence of one-character strings;    *)
(*   - a float is <<h>> with h the value in hundredths, NaN is <<>>;       *)
(*   - a p-value is <<t>> with t in thousandths, NaN is <<>>;              *)
(*   - results of the statistics libraries (statsmodels, linearmodels,     *)
(*     plotly) are inputs drawn from small sets.                           *)
(***************************************************************************)
EXTENDS Integers, Sequences, FiniteSets, TLC

VARIABLES
    HAS_SM,      \* statsmodels importable
    HAS_LM,      \* linearmodels importable
    gdpFile,     \* content of data/GDP/dataset_gdp.csv (or a missing file)
    fdiFile,     \* content of data/FDI/fdi_datasets.csv (or a missing file)
    pc,          \* position of show()
    gdp,         \* local gdp (wide frame)
    fdi,         \* local fdi (wide frame)
    year_cols,   \* local year_cols
    df,          \* local df (joined long frame)
    sel_years,   \* local sel_years, <<>> before the slider
    country,     \* local country (rebound by every tab)
    d,           \* local d (rebound by every tab)
    pvals,       \* local pvals of the Granger tab
    sel_aic,     \* sel.selected_orders.get("aic") of the VAR tab, <<>> while unbound
    varp,        \* local p of the VAR tab, <<>> while unbound
    panel,       \* local panel (rebound by the panel and policy tabs)
    pdata,       \* local pdata (rebound by the panel and policy tabs)
    coef,        \* local coef (rebound by the panel and policy tabs)
    olsMemo,     \* result of sm.OLS(...).fit() on this run's pdata, once computed
    out,         \* the st.* elements emitted so far
    calls,       \* the estimation-library calls made so far
    fits,        \* the models fitted by the panel and policy tabs, with their data
    exc,         \* tab in which an exception left show(), "" if none
    fn_args,     \* a helper called on its own: its name and arguments, <<>> if none
    fn_ret       \* <<value>> once that helper has returned, <<>> before

vars == << HAS_SM, HAS_LM, gdpFile, fdiFile, pc, gdp, fdi, year_cols, df, sel_years, country, d, pvals, varp, pdata, coef,
           olsMemo, out, calls, exc, sel_aic, panel, fits, fn_args, fn_ret >>

---------------------------------------------------------------------------
(* Bounds of the model *)

FirstYear == 2003
NumYears == 11
ShortSpan == 2
MaxSeriesLen == 4

(* Program constants *)

GRANGER_MIN_OBS == 8
VAR_MIN_OBS == 10
MAXLAG == 3
IRF_HORIZON == 5
WINSOR_Q_PCT == 1
DEFAULT_START == 2010
DEFAULT_END == 2024
P_THRESHOLD == 50

---------------------------------------------------------------------------
(* Texts *)

DigitChars == <<"0","1","2","3","4","5","6","7","8","9">>
UPPER == <<"A","B","C","D","E","F","G","H","I","J","K","L","M","N","O","P","Q","R","S","T","U","V","W","X","Y","Z">>
LOWER == <<"a","b","c","d","e","f","g","h","i","j","k","l","m","n","o","p","q","r","s","t","u","v","w","x","y","z">>

COUNTRY_NAME == <<"C","o","u","n","t","r","y"," ","N","a","m","e">>
INDICATOR_NAME == <<"I","n","d","i","c","a","t","o","r"," ","N","a","m","e">>
COUNTRY_CODE == <<"C","o","u","n","t","r","y"," ","C","o","d","e">>
GDP_GROWTH_IND == <<"G","D","P"," ","g","r","o","w","t","h"," ","(","a","n","n","u","a","l"," ","%",")">>
GDP_LEVEL_IND == <<"G","D","P"," ","(","c","u","r","r","e","n","t"," ","U","S","$",")">>
FDI_PATTERN == <<"F","o","r","e","i","g","n"," ","d","i","r","e","c","t"," ","i","n","v","e","s","t","m","e","n","t">>
FDI_INFLOW_IND == <<"F","o","r","e","i","g","n"," ","d","i","r","e","c","t"," ","i","n","v","e","s","t","m","e","n","t",","," ","n","e","t"," ","i","n","f","l","o","w","s"," ","(","%"," ","o","f"," ","G","D","P",")">>
FDI_OUTFLOW_IND == <<"f","o","r","e","i","g","n"," ","d","i","r","e","c","t"," ","i","n","v","e","s","t","m","e","n","t",","," ","n","e","t"," ","o","u","t","f","l","o","w","s"," ","(","%"," ","o","f"," ","G","D","P",")">>

REQUIRED_COLS == {COUNTRY_NAME, INDICATOR_NAME}

ASEAN == {"Indonesia", "Malaysia", "Thailand", "Viet Nam", "Vietnam", "Philippines",
          "Singapore", "Brunei Darussalam", "Lao PDR", "Myanmar", "Cambodia"}

(* str.isdigit(): non-empty and every character a digit *)
IsDigit(s) == Len(s) > 0 /\ \A i \in 1..Len(s) : \E k \in 1..10 : DigitChars[k] = s[i]

DigitVal(ch) == (CHOOSE k \in 1..10 : DigitChars[k] = ch) - 1

(* pd.to_numeric on a label made of digits *)
RECURSIVE ToInt(_)
ToInt(s) == IF s = <<>> THEN 0
            ELSE 10 * ToInt(SubSeq(s, 1, Len(s) - 1)) + DigitVal(s[Len(s)])

(* the decimal text of a natural number (the header of a year column) *)
RECURSIVE Str(_)
Str(n) == IF n < 10 THEN <<DigitChars[n + 1]>>
          ELSE Str(n \div 10) \o <<DigitChars[(n % 10) + 1]>>

(* str.lower() on one character *)
LowerChar(ch) == IF \E k \in 1..26 : UPPER[k] = ch
                 THEN LOWER[CHOOSE k \in 1..26 : UPPER[k] = ch]
                 ELSE ch

LowerText(s) == [i \in 1..Len(s) |-> LowerChar(s[i])]

(* pat occurs in s as a contiguous run *)
Contains(s, pat) ==
    \E i \in 0..(Len(s) - Len(pat)) : \A j \in 1..Len(pat) : s[i + j] = pat[j]

(* Series.str.contains(pat, case=False) *)
ContainsNoCase(s, pat) == Contains(LowerText(s), LowerText(pat))

(* order of Python strings on labels made of digits *)
RECURSIVE LexLess(_, _)
LexLess(a, b) ==
    IF a = <<>> THEN b # <<>>
    ELSE IF b = <<>> THEN FALSE
    ELSE IF a[1] = b[1] THEN LexLess(Tail(a), Tail(b))
    ELSE DigitVal(a[1]) < DigitVal(b[1])

(* sorted(list(S)) for a set of digit labels *)
RECURSIVE SortedLabels(_)
SortedLabels(S) ==
    IF S = {} THEN <<>>
    ELSE LET m == CHOOSE x \in S : \A y \in S \ {x} : LexLess(x, y)
         IN  <<m>> \o SortedLabels(S \ {m})

---------------------------------------------------------------------------
(* Floats *)

NaN == <<>>
Num(h) == <<h>>
IsNa(x) == x = <<>>
Val(x) == x[1]

(* cells of a CSV as read by pd.read_csv *)
NumCell(n) == [k |-> "num", v |-> n]
BlankCell == [k |-> "blank", v |-> 0]
TextCell == [k |-> "text", v |-> 0]

(* mutant: a non-numeric text is taken as 0 instead of NaN *)
ToNumericTextAsZero(cell) == IF cell.k = "blank" THEN NaN ELSE Num(100 * cell.v)

(* pd.to_numeric(errors="coerce") on a cell: hundredths, or NaN *)
ToNumeric(cell) == IF cell.k = "num" THEN Num(100 * cell.v) ELSE NaN

---------------------------------------------------------------------------
(* Sequences *)

RECURSIVE Flatten(_)
Flatten(ss) == IF ss = <<>> THEN <<>> ELSE Head(ss) \o Flatten(Tail(ss))

Range(s) == {s[i] : i \in 1..Len(s)}

Last(s) == s[Len(s)]


---------------------------------------------------------------------------
(* Input files: the wide tables that pd.read_csv(path, skiprows=4) returns *)

Years == FirstYear..(FirstYear + NumYears - 1)
YearIdx(y) == y - FirstYear + 1

IdCols == {COUNTRY_NAME, COUNTRY_CODE, INDICATOR_NAME}
YearLabels(Y) == {Str(y) : y \in Y}
(* the label pandas gives a repeated header, such as "2005.1" *)
MangledCol == Str(FirstYear + 2) \o <<".", "1">>

ColsAll == IdCols \cup YearLabels(Years) \cup {MangledCol}
ColsNoCountry == ColsAll \ {COUNTRY_NAME}
ColsNoIndicator == ColsAll \ {INDICATOR_NAME}
ColsEarly == IdCols \cup YearLabels({y \in Years : YearIdx(y) < GRANGER_MIN_OBS})
ColsLate == IdCols \cup YearLabels({y \in Years : YearIdx(y) >= GRANGER_MIN_OBS})

(* the whole-number value of row `salt` in year y *)
RawValue(salt, y) == ((y * 7 + salt * 3) % 9) - 2

PatCell(pat, salt, y) ==
    CASE pat = "full"  -> NumCell(RawValue(salt, y))
      [] pat = "short" -> IF YearIdx(y) < GRANGER_MIN_OBS
                          THEN NumCell(RawValue(salt, y)) ELSE BlankCell
      [] pat = "gap"   -> IF YearIdx(y) = 5 THEN BlankCell
                          ELSE IF YearIdx(y) = 6 THEN TextCell
                          ELSE NumCell(RawValue(salt, y))
      [] OTHER         -> BlankCell

MkRow(cols, spec) ==
    [country   |-> spec[1],
     indicator |-> spec[2],
     vals      |-> [l \in cols \ IdCols |->
                      IF IsDigit(l) THEN PatCell(spec[3], spec[4], ToInt(l))
                      ELSE BlankCell]]

MkTable(cols, specs) ==
    [exists |-> TRUE, cols |-> cols,
     rows |-> [i \in 1..Len(specs) |-> MkRow(cols, specs[i])]]

NoFile == [exists |-> FALSE, cols |-> {}, rows |-> <<>>]
NoFrame == [exists |-> FALSE, cols |-> {}, rows |-> <<>>]

GdpRowSpecs ==
    { << <<"Indonesia", GDP_GROWTH_IND, "full", 1>>,
         <<"Viet Nam",  GDP_GROWTH_IND, "gap",  2>>,
         <<"Japan",     GDP_GROWTH_IND, "full", 3>> >>,
      << <<"Indonesia", GDP_GROWTH_IND, "short", 1>>,
         <<"Indonesia", GDP_LEVEL_IND,  "full",  4>> >>,
      << <<"Japan",     GDP_GROWTH_IND, "full", 3>>,
         <<"Vietnam",   GDP_LEVEL_IND,  "full", 2>> >> }

FdiRowSpecs ==
    { << <<"Indonesia", FDI_INFLOW_IND, "full", 5>>,
         <<"Vietnam",   FDI_INFLOW_IND, "full", 6>> >>,
      << <<"Indonesia", FDI_INFLOW_IND,  "full", 5>>,
         <<"Indonesia", FDI_OUTFLOW_IND, "gap",  7>> >>,
      << <<"Indonesia", FDI_INFLOW_IND, "blank", 5>>,
         <<"Japan",     FDI_INFLOW_IND, "full",  8>> >>,
      << <<"Viet Nam",  FDI_INFLOW_IND, "short", 6>>,
         <<"Indonesia", GDP_GROWTH_IND, "full",  5>> >> }

GdpFiles ==
    {NoFile} \cup
    {MkTable(c, r) : c \in {ColsAll, ColsNoCountry, ColsNoIndicator, ColsEarly},
                     r \in GdpRowSpecs}

FdiFiles ==
    {NoFile} \cup
    {MkTable(c, r) : c \in {ColsAll, ColsNoCountry, ColsNoIndicator, ColsLate},
                     r \in FdiRowSpecs}

---------------------------------------------------------------------------
(* Streamlit elements and library calls *)

ElemT(tab, kind, what, val, text) ==
    [tab |-> tab, kind |-> kind, what |-> what, val |-> val, text |-> text]
Elem(tab, kind, what, val) == ElemT(tab, kind, what, val, "")
Call(tab, fn) == [tab |-> tab, fn |-> fn]

NoCountry == "<None>"

Init ==
    /\ HAS_SM \in BOOLEAN
    /\ HAS_LM \in BOOLEAN
    /\ gdpFile \in GdpFiles
    /\ fdiFile \in FdiFiles
    /\ pc = "load"
    /\ gdp = NoFrame
    /\ fdi = NoFrame
    /\ year_cols = <<>>
    /\ df = <<>>
    /\ sel_years = <<>>
    /\ country = NoCountry
    /\ d = <<>>
    /\ pvals = <<>>
    /\ varp = <<>>
    /\ pdata = <<>>
    /\ coef = NaN
    /\ olsMemo = <<>>
    /\ out = <<>>
    /\ calls = <<>>
    /\ exc = ""
    /\ sel_aic = <<>>
    /\ panel = <<>>
    /\ fits = <<>>
    /\ fn_args = <<>>
    /\ fn_ret = <<>>

(* st.stop() after the elements es *)
Stop(es) == /\ out' = out \o es
            /\ pc' = "stopped"

---------------------------------------------------------------------------
(* _load_csv_or_stop, called for GDP and then for FDI *)

FileNotFound(label) ==
    << Elem("load", "error", "FileNotFound", <<>>),
       Elem("load", "code", label, <<>>),
       Elem("load", "info", "folder structure", <<>>) >>

LoadCsv ==
    /\ pc = "load"
    /\ IF ~gdpFile.exists
       THEN Stop(FileNotFound("GDP")) /\ UNCHANGED <<gdp, fdi>>
       ELSE IF ~fdiFile.exists
       THEN Stop(FileNotFound("FDI")) /\ gdp' = gdpFile /\ UNCHANGED fdi
       ELSE /\ gdp' = gdpFile
            /\ fdi' = fdiFile
            /\ pc' = "schema"
            /\ UNCHANGED out
    /\ UNCHANGED << fn_args, fn_ret, sel_aic, panel, fits, HAS_SM, HAS_LM, gdpFile, fdiFile, year_cols, df, sel_years, country, d, pvals, varp, pdata, coef, olsMemo,
                    calls, exc >>

(* mutant: only 'Country Name' is looked for *)
MissingColsCountryOnly(frame, required) ==
    {c \in required \cap {COUNTRY_NAME} : c \notin frame.cols}

(* _ensure_required_cols: the required columns the frame lacks *)
MissingCols(frame, required) == {c \in required : c \notin frame.cols}

EnsureRequiredCols ==
    /\ pc = "schema"
    /\ IF MissingCols(gdp, REQUIRED_COLS) # {}
       THEN Stop(<<Elem("load", "error", "SchemaError", <<>>)>>)
       ELSE IF MissingCols(fdi, REQUIRED_COLS) # {}
       THEN Stop(<<Elem("load", "error", "SchemaError", <<>>)>>)
       ELSE pc' = "filter" /\ UNCHANGED out
    /\ UNCHANGED << fn_args, fn_ret, sel_aic, panel, fits, HAS_SM, HAS_LM, gdpFile, fdiFile, gdp, fdi, year_cols, df, sel_years, country, d, pvals, varp, pdata, coef,
                    olsMemo, calls, exc >>

---------------------------------------------------------------------------
(* Indicator filter, ASEAN filter, name normalisation *)

IsGdpIndicator(ind) == ind = GDP_GROWTH_IND
IsFdiIndicator(ind) == ContainsNoCase(ind, FDI_PATTERN)
InAsean(c) == c \in ASEAN
(* Series.replace({"Viet Nam": "Vietnam"}) *)
NormalizeName(c) == IF c = "Viet Nam" THEN "Vietnam" ELSE c

FilterGdp(frame) ==
    LET Keep(r) == IsGdpIndicator(r.indicator) /\ InAsean(r.country)
        kept == SelectSeq(frame.rows, Keep)
    IN  [frame EXCEPT !.rows =
            [i \in 1..Len(kept) |-> [kept[i] EXCEPT !.country = NormalizeName(@)]]]

(* mutant: the names of the FDI table are left as they are *)
FilterFdiNoAlias(frame) ==
    LET Keep(r) == IsFdiIndicator(r.indicator) /\ InAsean(r.country)
    IN  [frame EXCEPT !.rows = SelectSeq(frame.rows, Keep)]

FilterFdi(frame) ==
    LET Keep(r) == IsFdiIndicator(r.indicator) /\ InAsean(r.country)
        kept == SelectSeq(frame.rows, Keep)
    IN  [frame EXCEPT !.rows =
            [i \in 1..Len(kept) |-> [kept[i] EXCEPT !.country = NormalizeName(@)]]]

FilterRows ==
    /\ pc = "filter"
    /\ gdp' = FilterGdp(gdp)
    /\ fdi' = FilterFdi(fdi)
    /\ pc' = "years"
    /\ UNCHANGED << fn_args, fn_ret, sel_aic, panel, fits, HAS_SM, HAS_LM, gdpFile, fdiFile, year_cols, df, sel_years, country, d, pvals, varp, pdata, coef, olsMemo,
                    out, calls, exc >>

---------------------------------------------------------------------------
(* Year columns common to both frames *)

(* mutant: a label counts as a year when it starts with a digit *)
YearLikeFirstChar(frame) == {c \in frame.cols : IsDigit(<<c[1]>>)}

YearLike(frame) == {c \in frame.cols : IsDigit(c)}
CommonYearCols(g, f) == SortedLabels(YearLike(g) \cap YearLike(f))

YearColumns ==
    /\ pc = "years"
    /\ year_cols' = CommonYearCols(gdp, fdi)
    /\ IF year_cols' = <<>>
       THEN Stop(<<Elem("load", "error", "EmptyIntersection", <<>>)>>)
       ELSE pc' = "melt" /\ UNCHANGED out
    /\ UNCHANGED << fn_args, fn_ret, sel_aic, panel, fits, HAS_SM, HAS_LM, gdpFile, fdiFile, gdp, fdi, df, sel_years, country, d, pvals, varp, pdata, coef, olsMemo,
                    calls, exc >>

---------------------------------------------------------------------------
(* Melt, coerce, inner merge, dropna *)

(* DataFrame.melt(id_vars=["Country Name"], value_vars=ycols) *)
Melt(frame, ycols) ==
    Flatten([j \in 1..Len(ycols) |->
               [i \in 1..Len(frame.rows) |->
                  [country |-> frame.rows[i].country,
                   Year    |-> ycols[j],
                   value   |-> frame.rows[i].vals[ycols[j]]]]])

(* pd.to_numeric(errors="coerce") on Year and on the value column *)
CoerceLong(long) ==
    [i \in 1..Len(long) |->
        [country |-> long[i].country,
         Year    |-> ToInt(long[i].Year),
         value   |-> ToNumeric(long[i].value)]]

(* pd.merge(L, R, on=["Country Name", "Year"], how="inner") *)
Merge(L, R) ==
    Flatten([i \in 1..Len(L) |->
               LET Match(r) == r.country = L[i].country /\ r.Year = L[i].Year
                   m == SelectSeq(R, Match)
               IN  [j \in 1..Len(m) |->
                      [country    |-> L[i].country,
                       Year       |-> L[i].Year,
                       GDP_Growth |-> L[i].value,
                       FDI_PctGDP |-> m[j].value]]])

(* mutant: dropna(subset=["GDP_Growth"]) *)
DropnaGdpOnly(rows) ==
    LET Keep(r) == ~IsNa(r.GDP_Growth)
    IN  SelectSeq(rows, Keep)

(* df.dropna(subset=["GDP_Growth", "FDI_PctGDP"]) *)
DropnaJoined(rows) ==
    LET Keep(r) == ~IsNa(r.GDP_Growth) /\ ~IsNa(r.FDI_PctGDP)
    IN  SelectSeq(rows, Keep)

MeltMerge ==
    /\ pc = "melt"
    /\ LET gdp_long == CoerceLong(Melt(gdp, year_cols))
           fdi_long == CoerceLong(Melt(fdi, year_cols))
       IN  df' = DropnaJoined(Merge(gdp_long, fdi_long))
    /\ IF df' = <<>>
       THEN Stop(<<Elem("load", "error", "EmptyJoin", <<>>)>>)
       ELSE pc' = "winsorize" /\ UNCHANGED out
    /\ UNCHANGED << fn_args, fn_ret, sel_aic, panel, fits, HAS_SM, HAS_LM, gdpFile, fdiFile, gdp, fdi, year_cols, sel_years,
                    country, d, pvals, varp, pdata, coef, olsMemo, calls, exc >>

---------------------------------------------------------------------------
(* winsorize, applied per country to both value columns *)

RECURSIVE InsertSorted(_, _)
InsertSorted(x, s) ==
    IF s = <<>> THEN <<x>>
    ELSE IF x <= Head(s) THEN <<x>> \o s
    ELSE <<Head(s)>> \o InsertSorted(x, Tail(s))

RECURSIVE SortInts(_)
SortInts(s) == IF s = <<>> THEN <<>> ELSE InsertSorted(Head(s), SortInts(Tail(s)))

(* Series.dropna() on a sequence of floats, as a sequence of hundredths *)
NonNa(s) ==
    LET Keep(x) == ~IsNa(x)
        k == SelectSeq(s, Keep)
    IN  [i \in 1..Len(k) |-> Val(k[i])]

(* Series.quantile(qPct / 100), linear interpolation between order statistics *)
Quantile(s, qPct) ==
    LET v    == SortInts(NonNa(s))
        pos  == (Len(v) - 1) * qPct
        j    == pos \div 100
        frac == pos % 100
    IN  IF frac = 0 THEN v[j + 1]
        ELSE v[j + 1] + (frac * (v[j + 2] - v[j + 1])) \div 100

Min2(a, b) == IF a <= b THEN a ELSE b
Max2(a, b) == IF a >= b THEN a ELSE b

(* mutant: clip(lower=lo) *)
ClipLowOnly(x, lo, hi) == IF IsNa(x) THEN x ELSE Num(Max2(lo, Val(x)))

(* Series.clip(lo, hi); NaN stays NaN *)
Clip(x, lo, hi) == IF IsNa(x) THEN x ELSE Num(Max2(lo, Min2(Val(x), hi)))

winsorize(s, qPct) ==
    IF NonNa(s) = <<>> THEN s
    ELSE LET lo == Quantile(s, qPct)
             hi == Quantile(s, 100 - qPct)
         IN  [i \in 1..Len(s) |-> Clip(s[i], lo, hi)]

(* the rows of one country, in frame order *)
RowsOf(rows, c) == LET Keep(r) == r.country = c IN SelectSeq(rows, Keep)

Column(rows, col) == [i \in 1..Len(rows) |-> rows[i][col]]

(* position of row i of the frame within its country's group *)
GroupPos(rows, i) == Cardinality({j \in 1..i : rows[j].country = rows[i].country})

(* mutant: one pair of bounds for the pooled column *)
WinsorizePooled(rows, col) == winsorize(Column(rows, col), WINSOR_Q_PCT)

(* df.groupby("Country Name")[col].transform(lambda s: winsorize(s, 0.01)) *)
WinsorizeByCountry(rows, col) ==
    [i \in 1..Len(rows) |->
        winsorize(Column(RowsOf(rows, rows[i].country), col), WINSOR_Q_PCT)[GroupPos(rows, i)]]

Winsorize ==
    /\ pc = "winsorize"
    /\ df' = LET g == WinsorizeByCountry(df, "GDP_Growth")
                 f == WinsorizeByCountry(df, "FDI_PctGDP")
             IN  [i \in 1..Len(df) |->
                    [df[i] EXCEPT !.GDP_Growth = g[i], !.FDI_PctGDP = f[i]]]
    /\ pc' = "range"
    /\ UNCHANGED << fn_args, fn_ret, sel_aic, panel, fits, HAS_SM, HAS_LM, gdpFile, fdiFile, gdp, fdi, year_cols, sel_years, country, d, pvals, varp, pdata, coef, olsMemo,
                    out, calls, exc >>

---------------------------------------------------------------------------
(* Correlation and its interpretation *)

(* mutant: a coefficient on a threshold takes the stronger label *)
interpret_corrInclusive(r) ==
    IF IsNa(r) THEN <<"neutral", "tidak dapat dihitung">>
    ELSE IF Val(r) >= 70 THEN <<"strong positive", "sangat berhubungan">>
    ELSE IF Val(r) >= 40 THEN <<"moderate positive", "cukup berkaitan">>
    ELSE IF Val(r) >= 20 THEN <<"weak positive", "berdampak kecil">>
    ELSE IF Val(r) <= -20 THEN <<"negative", "bereaksi terhadap kontraksi">>
    ELSE <<"neutral", "hubungan lemah / tidak signifikan">>

(* thresholds of interpret_corr, in hundredths *)
interpret_corr(r) ==
    IF IsNa(r) THEN <<"neutral", "tidak dapat dihitung">>
    ELSE IF Val(r) > 70 THEN <<"strong positive", "sangat berhubungan">>
    ELSE IF Val(r) > 40 THEN <<"moderate positive", "cukup berkaitan">>
    ELSE IF Val(r) > 20 THEN <<"weak positive", "berdampak kecil">>
    ELSE IF Val(r) < -20 THEN <<"negative", "bereaksi terhadap kontraksi">>
    ELSE <<"neutral", "hubungan lemah / tidak signifikan">>

IsConstant(s) == \A i \in 1..Len(s) : s[i] = s[1]

(* a Pearson coefficient of a non-degenerate sample, in hundredths *)
CorrValues == {Num(41)}

(* Series.corr: NaN below two pairs or for a constant column, else a coefficient *)
CorrOutcomes(rows) ==
    IF \/ Len(rows) < 2
       \/ IsConstant(Column(rows, "GDP_Growth"))
       \/ IsConstant(Column(rows, "FDI_PctGDP"))
    THEN {NaN}
    ELSE CorrValues

---------------------------------------------------------------------------
(* Year range slider, year filter, header and KPIs *)

RECURSIVE SeqMin(_)
SeqMin(s) == IF Len(s) = 1 THEN s[1] ELSE Min2(s[1], SeqMin(Tail(s)))
RECURSIVE SeqMax(_)
SeqMax(s) == IF Len(s) = 1 THEN s[1] ELSE Max2(s[1], SeqMax(Tail(s)))

(* value=(default_start, default_end) of the slider *)
DefaultRange(ymin, ymax) ==
    LET ds == Max2(ymin, DEFAULT_START)
        de == Min2(ymax, DEFAULT_END)
    IN  IF ds > de THEN <<ymin, ymax>> ELSE <<ds, de>>

(* the ranges the user is taken to select: the default, the whole range, the
   ranges from year_min that span about the analyzers' thresholds, and the
   shortest ranges (a single year, a few years) *)
SliderChoices(ymin, ymax) ==
    {DefaultRange(ymin, ymax), <<ymin, ymax>>}
    \cup {<<ymin, ymin + n - 1>> :
            n \in {k \in {GRANGER_MIN_OBS - 1, GRANGER_MIN_OBS, VAR_MIN_OBS}
                           \cup (1..ShortSpan) :
                     ymin + k - 1 <= ymax}}

(* mutant: the year before the range is kept as well *)
FilterYearsWithPrior(rows, sel) ==
    LET Keep(r) == r.Year >= sel[1] - 1 /\ r.Year <= sel[2]
    IN  SelectSeq(rows, Keep)

(* mutant: the values are winsorized again, over the selected range *)
FilterYearsRewinsorized(rows, sel) ==
    LET Keep(r) == r.Year >= sel[1] /\ r.Year <= sel[2]
        kept == SelectSeq(rows, Keep)
        g == WinsorizeByCountry(kept, "GDP_Growth")
        f == WinsorizeByCountry(kept, "FDI_PctGDP")
    IN  [i \in 1..Len(kept) |-> [kept[i] EXCEPT !.GDP_Growth = g[i], !.FDI_PctGDP = f[i]]]

FilterYears(rows, sel) ==
    LET Keep(r) == r.Year >= sel[1] /\ r.Year <= sel[2]
    IN  SelectSeq(rows, Keep)

YearRange ==
    /\ pc = "range"
    /\ LET year_min == SeqMin(Column(df, "Year"))
           year_max == SeqMax(Column(df, "Year"))
       IN  \E sel \in SliderChoices(year_min, year_max) :
             /\ sel_years' = sel
             /\ df' = FilterYears(df, sel)
    /\ \E corr_all \in CorrOutcomes(df') :
          out' = out \o << Elem("header", "markdown", "banner", sel_years'),
                           Elem("header", "info", interpret_corr(corr_all)[1], <<>>) >>
    /\ pc' = "corr"
    /\ UNCHANGED << fn_args, fn_ret, sel_aic, panel, fits, HAS_SM, HAS_LM, gdpFile, fdiFile, gdp, fdi, year_cols, country, d, pvals, varp, pdata, coef, olsMemo, calls,
                    exc >>

---------------------------------------------------------------------------
(* Tabs *)

(* mutant: the tabs take statsmodels to be there *)
NoStatsmodelsNever == FALSE

(* `if not HAS_SM` *)
NoStatsmodels == ~HAS_SM

(* st.selectbox over sorted(df["Country Name"].unique()): one of the options,
   None when there is none *)
SelectboxChoices(rows) ==
    IF rows = <<>> THEN {NoCountry} ELSE {rows[i].country : i \in 1..Len(rows)}

(* an exception leaves show() after the elements es *)
Uncaught(tab, es) ==
    /\ out' = out \o es
    /\ exc' = tab
    /\ pc' = "crashed"

RECURSIVE InsertByYear(_, _)
InsertByYear(r, s) ==
    IF s = <<>> THEN <<r>>
    ELSE IF r.Year < Head(s).Year THEN <<r>> \o s
    ELSE <<Head(s)>> \o InsertByYear(r, Tail(s))

(* DataFrame.sort_values("Year"); rows of one year keep their order *)
RECURSIVE SortByYear(_)
SortByYear(rows) ==
    IF rows = <<>> THEN <<>>
    ELSE InsertByYear(Last(rows), SortByYear(SubSeq(rows, 1, Len(rows) - 1)))

(* d = df[country].sort_values("Year")[["GDP_Growth", "FDI_PctGDP"]].dropna() *)
SeriesOf(rows, c) == DropnaJoined(SortByYear(RowsOf(rows, c)))

(* --- Korelasi per negara: no try/except around the tab *)
TabCorr ==
    /\ pc = "corr"
    /\ \E c \in SelectboxChoices(df) :
         /\ country' = c
         /\ d' = RowsOf(df, c)
         /\ \E r \in CorrOutcomes(d'), raised \in {"", "px.scatter", "px.bar"} :
              LET hdr == Elem("corr", "markdown", "header", <<>>)
                  cap == << Elem("corr", "chart", "scatter", <<>>),
                            Elem("corr", "caption", interpret_corr(r)[1], <<>>) >>
              IN  IF raised = "px.scatter" THEN Uncaught("corr", <<hdr>>)
                  ELSE IF raised = "px.bar" THEN Uncaught("corr", <<hdr>> \o cap)
                  ELSE /\ out' = out \o <<hdr>> \o cap \o <<Elem("corr", "chart", "bar", <<>>)>>
                       /\ pc' = "trend"
                       /\ UNCHANGED exc
    /\ UNCHANGED << fn_args, fn_ret, sel_aic, panel, fits, HAS_SM, HAS_LM, gdpFile, fdiFile, gdp, fdi, year_cols, df, sel_years, pvals, varp, pdata, coef, olsMemo, calls >>

(* --- Tren per negara: no try/except around the tab *)
TabTrend ==
    /\ pc = "trend"
    /\ \E c \in SelectboxChoices(df) :
         /\ country' = c
         /\ d' = SortByYear(RowsOf(df, c))
    /\ \E raised \in BOOLEAN :
         LET hdr == Elem("trend", "markdown", "header", <<>>)
         IN  IF raised THEN Uncaught("trend", <<hdr>>)
             ELSE /\ out' = out \o <<hdr, Elem("trend", "chart", "line", <<>>)>>
                  /\ pc' = "granger"
                  /\ UNCHANGED exc
    /\ UNCHANGED << fn_args, fn_ret, sel_aic, panel, fits, HAS_SM, HAS_LM, gdpFile, fdiFile, gdp, fdi, year_cols, df, sel_years, pvals, varp, pdata, coef, olsMemo, calls >>

(* --- Granger causality *)

(* p-values of the F-tests, in thousandths: just below and on the threshold,
   and vectors with NaN entries *)
PVectors ==
    { [i \in 1..MAXLAG |-> IF i = 2 THEN Num(49) ELSE Num(50)],
      [i \in 1..MAXLAG |-> Num(50)],
      [i \in 1..MAXLAG |-> NaN],
      [i \in 1..MAXLAG |-> IF i = 1 THEN NaN ELSE Num(48 + i)],
      [i \in 1..MAXLAG |-> IF i = 1 THEN Num(50) ELSE NaN] }

(* grangercausalitytests(d, maxlag=3): raises, or a result for every lag 1..maxlag,
   of which p[i] is res[i][0]["ssr_ftest"][1] *)
GrangerOutcomes ==
    {[raises |-> TRUE, p |-> <<>>]}
    \cup {[raises |-> FALSE, p |-> f] : f \in PVectors}

(* np.nanmin: the least non-NaN value, NaN when there is none *)
NanMin(s) == IF NonNa(s) = <<>> THEN NaN ELSE Num(SeqMin(NonNa(s)))

(* x < t on floats: False when x is NaN *)
FloatLt(x, t) == ~IsNa(x) /\ Val(x) < t

(* mutant: the lower threshold of 6 observations *)
TooFewForGrangerSix(dd) == Len(dd) < 6

(* mutant: 8 observations are still too few *)
TooFewForGrangerInclusive(dd) == Len(dd) <= GRANGER_MIN_OBS

TooFewForGranger(dd) == Len(dd) < GRANGER_MIN_OBS

(* mutant: a minimum on the threshold counts as detected *)
GrangerVerdictInclusive(pv) ==
    IF ~IsNa(NanMin(pv)) /\ Val(NanMin(pv)) <= P_THRESHOLD
    THEN Elem("granger", "success", "detected", <<>>)
    ELSE Elem("granger", "warning", "not detected", <<>>)

GrangerVerdict(pv) ==
    IF FloatLt(NanMin(pv), P_THRESHOLD)
    THEN Elem("granger", "success", "detected", <<>>)
    ELSE Elem("granger", "warning", "not detected", <<>>)

TabGranger ==
    /\ pc = "granger"
    /\ pc' = "var"
    /\ LET hdr == Elem("granger", "markdown", "header", <<>>)
       IN  IF NoStatsmodels
           THEN /\ out' = out \o <<hdr, Elem("granger", "warning", "MissingStatsmodels", <<>>)>>
                /\ UNCHANGED <<country, d, pvals, calls>>
           ELSE \E c \in SelectboxChoices(df) :
                  /\ country' = c
                  /\ d' = SeriesOf(df, c)
                  /\ IF TooFewForGranger(d')
                     THEN /\ out' = out \o <<hdr, Elem("granger", "warning", "InsufficientData", <<>>)>>
                          /\ UNCHANGED <<pvals, calls>>
                     ELSE \E res \in GrangerOutcomes :
                            /\ calls' = Append(calls, Call("granger", "grangercausalitytests"))
                            /\ IF res.raises
                               THEN /\ out' = out \o <<hdr, Elem("granger", "error", "EstimationFailure", <<>>)>>
                                    /\ UNCHANGED pvals
                               ELSE /\ pvals' = [i \in 1..3 |-> res.p[i]]
                                    /\ out' = out \o
                                         << hdr,
                                            Elem("granger", "dataframe", "p-values",
                                                 [i \in 1..3 |-> <<Num(i), pvals'[i]>>]),
                                            GrangerVerdict(pvals') >>
    /\ UNCHANGED << fn_args, fn_ret, sel_aic, panel, fits, HAS_SM, HAS_LM, gdpFile, fdiFile, gdp, fdi, year_cols, df, sel_years, varp, pdata, coef, olsMemo, exc >>

(* --- VAR & Impulse Response *)

(* sel.selected_orders.get("aic"): absent or None (<<>>), or an order 0..maxlags *)
AicValues == {<<>>} \cup {<<k>> : k \in 0..MAXLAG}

(* model.select_order(maxlags=3) raises or returns; model.fit(p), res.irf(5) raise
   or return *)
VarOutcomes == [selectRaises : BOOLEAN, aic : AicValues, fitRaises : BOOLEAN]

(* int(sel.selected_orders.get("aic", 1) or 1) *)
SelectedOrder(aic) == IF aic = <<>> THEN 1 ELSE IF aic[1] = 0 THEN 1 ELSE aic[1]

(* mutant: the threshold of the Granger tab *)
TooFewForVarEight(dd) == Len(dd) < GRANGER_MIN_OBS

TooFewForVar(dd) == Len(dd) < VAR_MIN_OBS

(* positions of the columns of d = ...[["GDP_Growth", "FDI_PctGDP"]] *)
GDP_COL == 0
FDI_COL == 1

(* res.irf(periods).irfs: one matrix per step 0..periods; irfs[i][r][s] stands for
   the response of variable r to a unit shock in variable s at step i - 1 *)
Irfs(periods) ==
    [i \in 1..(periods + 1) |-> [r \in {GDP_COL, FDI_COL} |->
                                   [s \in {GDP_COL, FDI_COL} |-> <<i - 1, r, s>>]]]

(* mutant: the response of FDI to a shock in GDP growth *)
IrfValsTransposed(irfs) == [i \in 1..Len(irfs) |-> irfs[i][1][0]]

(* irf.irfs[:, 0, 1] *)
IrfVals(irfs) == [i \in 1..Len(irfs) |-> irfs[i][0][1]]

(* np.arange(n) *)
Arange(n) == [i \in 1..n |-> i - 1]

(* horizon = np.arange(len(irf_vals)) for res.irf(5): steps 0..5 *)
IrfHorizon == Arange(Len(IrfVals(Irfs(IRF_HORIZON))))

(* go.Scatter(x=horizon, y=irf_vals): the points of the chart *)
IrfChart ==
    LET irf_vals == IrfVals(Irfs(IRF_HORIZON))
    IN  [i \in 1..Len(irf_vals) |-> <<IrfHorizon[i], irf_vals[i]>>]

TabVar ==
    /\ pc = "var"
    /\ pc' = "panel"
    /\ LET hdr == Elem("var", "markdown", "header", <<>>)
           err == Elem("var", "error", "EstimationFailure", <<>>)
       IN  IF NoStatsmodels
           THEN /\ out' = out \o <<hdr, Elem("var", "warning", "MissingStatsmodels", <<>>)>>
                /\ UNCHANGED <<country, d, sel_aic, varp, calls>>
           ELSE \E c \in SelectboxChoices(df) :
                  /\ country' = c
                  /\ d' = SeriesOf(df, c)
                  /\ IF TooFewForVar(d')
                     THEN /\ out' = out \o <<hdr, Elem("var", "warning", "InsufficientData", <<>>)>>
                          /\ UNCHANGED <<sel_aic, varp, calls>>
                     ELSE \E res \in VarOutcomes :
                            IF res.selectRaises
                            THEN /\ calls' = Append(calls, Call("var", "select_order"))
                                 /\ out' = out \o <<hdr, err>>
                                 /\ UNCHANGED <<sel_aic, varp>>
                            ELSE /\ sel_aic' = <<res.aic>>
                                 /\ varp' = <<SelectedOrder(res.aic)>>
                                 /\ calls' = calls \o << Call("var", "select_order"),
                                                         Call("var", "fit") >>
                                 /\ IF res.fitRaises
                                    THEN out' = out \o <<hdr, err>>
                                    ELSE out' = out \o <<hdr, Elem("var", "chart", "irf", IrfChart)>>
    /\ UNCHANGED << fn_args, fn_ret, panel, fits, HAS_SM, HAS_LM, gdpFile, fdiFile, gdp, fdi, year_cols, df, sel_years, pvals, pdata, coef, olsMemo, exc >>

(* --- Panel regression and policy simulation *)

(* the country set in the order of Python strings *)
AseanSorted == << "Brunei Darussalam", "Cambodia", "Indonesia", "Lao PDR", "Malaysia",
                  "Myanmar", "Philippines", "Singapore", "Thailand", "Viet Nam",
                  "Vietnam" >>
CountryRank(c) == CHOOSE k \in 1..Len(AseanSorted) : AseanSorted[k] = c

IndexLess(a, b) ==
    \/ CountryRank(a.country) < CountryRank(b.country)
    \/ a.country = b.country /\ a.Year < b.Year

RECURSIVE InsertByIndex(_, _)
InsertByIndex(r, s) ==
    IF s = <<>> THEN <<r>>
    ELSE IF IndexLess(r, Head(s)) THEN <<r>> \o s
    ELSE <<Head(s)>> \o InsertByIndex(r, Tail(s))

(* df.set_index(["Country Name", "Year"]).sort_index() *)
RECURSIVE SortIndex(_)
SortIndex(rows) ==
    IF rows = <<>> THEN <<>>
    ELSE InsertByIndex(Last(rows), SortIndex(SubSeq(rows, 1, Len(rows) - 1)))

(* mutant: shift(1) over the whole frame, without the grouping *)
ShiftAcrossCountries(rows) ==
    [i \in 1..Len(rows) |-> IF i = 1 THEN NaN ELSE rows[i - 1].GDP_Growth]

(* panel.groupby(level=0)["GDP_Growth"].shift(1): the value of the previous row
   of the same country, NaN for the country's first row *)
ShiftByCountry(rows) ==
    [i \in 1..Len(rows) |->
        LET prev == {j \in 1..(i - 1) : rows[j].country = rows[i].country}
        IN  IF prev = {} THEN NaN
            ELSE rows[CHOOSE j \in prev : \A k \in prev : k <= j].GDP_Growth]

WithLag(rows) ==
    LET l1 == ShiftByCountry(rows)
    IN  [i \in 1..Len(rows) |->
           [country       |-> rows[i].country,
            Year          |-> rows[i].Year,
            GDP_Growth    |-> rows[i].GDP_Growth,
            FDI_PctGDP    |-> rows[i].FDI_PctGDP,
            GDP_Growth_l1 |-> l1[i]]]

(* mutant: rows without a lag are kept *)
DropnaPanelKeepLag(rows) ==
    LET Keep(r) == ~IsNa(r.GDP_Growth) /\ ~IsNa(r.FDI_PctGDP)
    IN  SelectSeq(rows, Keep)

(* panel.dropna(subset=["GDP_Growth", "FDI_PctGDP", "GDP_Growth_l1"]) *)
DropnaPanel(rows) ==
    LET Keep(r) == ~IsNa(r.GDP_Growth) /\ ~IsNa(r.FDI_PctGDP) /\ ~IsNa(r.GDP_Growth_l1)
    IN  SelectSeq(rows, Keep)

BuildPdata(rows) == DropnaPanel(WithLag(SortIndex(rows)))

(* the constant 1.0 of a design matrix, in hundredths *)
ONE == Num(100)

(* pdata_[["FDI_PctGDP", "GDP_Growth_l1"]] *)
Regressors(rows) ==
    [i \in 1..Len(rows) |-> [FDI_PctGDP    |-> rows[i].FDI_PctGDP,
                             GDP_Growth_l1 |-> rows[i].GDP_Growth_l1]]

(* sm.add_constant(X), has_constant="skip": X is returned as it is when one of
   its columns is already a non-zero constant *)
AddConstant(X) ==
    IF /\ X # <<>>
       /\ \E col \in {"FDI_PctGDP", "GDP_Growth_l1"} :
             IsConstant(Column(X, col)) /\ Column(X, col)[1] # Num(0)
    THEN X
    ELSE [i \in 1..Len(X) |-> [const         |-> ONE,
                               FDI_PctGDP    |-> X[i].FDI_PctGDP,
                               GDP_Growth_l1 |-> X[i].GDP_Growth_l1]]

(* mutant: the fallback leaves out the first row of every country *)
OlsDesignInnerRows(tab, rows) ==
    LET Keep(r) == \E i \in 1..Len(rows) :
                      rows[i].country = r.country /\ rows[i].Year < r.Year
        pdata_ == SelectSeq(rows, Keep)
    IN  [tab |-> tab, model |-> "OLS", effects |-> {},
         y |-> Column(pdata_, "GDP_Growth"),
         X |-> AddConstant(Regressors(pdata_))]

(* pdata_ = pdata.reset_index() (the rows of pdata, in their order, the index
   turned into columns); X = sm.add_constant(...); y = pdata_["GDP_Growth"];
   sm.OLS(y, X) *)
OlsDesign(tab, rows) ==
    LET pdata_ == rows
    IN  [tab |-> tab, model |-> "OLS", effects |-> {},
         y |-> Column(pdata_, "GDP_Growth"),
         X |-> AddConstant(Regressors(pdata_))]

(* PanelOLS.from_formula("GDP_Growth ~ 1 + FDI_PctGDP + GDP_Growth_l1 +
   EntityEffects + TimeEffects", data=pdata) *)
PanelDesign(tab, rows) ==
    [tab |-> tab, model |-> "PanelOLS", effects |-> {"Entity", "Time"},
     y |-> Column(rows, "GDP_Growth"),
     X |-> [i \in 1..Len(rows) |-> [const         |-> ONE,
                                    FDI_PctGDP    |-> rows[i].FDI_PctGDP,
                                    GDP_Growth_l1 |-> rows[i].GDP_Growth_l1]]]

(* the record of a fit: its design, whether fit() raised, and the coefficient
   params.get("FDI_PctGDP", np.nan) when it returned *)
Fitted(design, res) ==
    [tab |-> design.tab, model |-> design.model, effects |-> design.effects,
     y |-> design.y, X |-> design.X,
     raised |-> res.raises, coef |-> res.coef]

(* a fit: raises, or params/pvalues of FDI_PctGDP (hundredths, thousandths); the
   p-values lie on and next to the thresholds of p_text *)
FitOutcomes ==
    { [raises |-> TRUE,  coef |-> NaN, pval |-> NaN],
      [raises |-> FALSE, coef |-> NaN, pval |-> NaN] }
    \cup {[raises |-> FALSE, coef |-> Num(120), pval |-> Num(p)] : p \in {9, 10}}
    \cup {[raises |-> FALSE, coef |-> Num(50),  pval |-> Num(p)] : p \in {50, 100}}

(* sm.OLS(y, X).fit() is a function of pdata: the same within one run (the fit
   of the policy tab is the last of the run, and is not recorded) *)
OlsOutcomes == IF olsMemo = <<>> THEN FitOutcomes ELSE {olsMemo[1]}

(* mutant: a p-value on a threshold takes the stronger label *)
p_textInclusive(p) ==
    IF IsNa(p) THEN "p-value tidak tersedia"
    ELSE IF Val(p) <= 10 THEN "p < 0.01 (sangat signifikan)"
    ELSE IF Val(p) <= 50 THEN "p < 0.05 (signifikan)"
    ELSE IF Val(p) <= 100 THEN "p < 0.10 (indikatif)"
    ELSE "p = (tidak signifikan)"

(* thresholds of p_text, in thousandths *)
p_text(p) ==
    IF IsNa(p) THEN "p-value tidak tersedia"
    ELSE IF Val(p) < 10 THEN "p < 0.01 (sangat signifikan)"
    ELSE IF Val(p) < 50 THEN "p < 0.05 (signifikan)"
    ELSE IF Val(p) < 100 THEN "p < 0.10 (indikatif)"
    ELSE "p = (tidak signifikan)"

(* the elements after a fit that did not raise: st.text(summary), and st.success
   when pd.notna(coef) *)
PanelReport(model, res) ==
    <<Elem("panel", "text", model, <<>>)>>
    \o (IF IsNa(res.coef) THEN <<>>
        ELSE <<ElemT("panel", "success", "coefficient", <<res.coef, res.pval>>,
                     p_text(res.pval))>>)

TabPanel ==
    /\ pc = "panel"
    /\ pc' = "policy"
    /\ panel' = WithLag(SortIndex(df))
    /\ pdata' = DropnaPanel(panel')
    /\ LET hdr == << Elem("panel", "markdown", "header", <<>>),
                     Elem("panel", "caption", "Fixed Effects", <<>>) >>
           err == Elem("panel", "error", "EstimationFailure", <<>>)
       IN  IF pdata' = <<>>
           THEN /\ out' = out \o hdr \o <<Elem("panel", "warning", "InsufficientData", <<>>)>>
                /\ UNCHANGED <<coef, olsMemo, calls, fits>>
           ELSE IF HAS_LM
           THEN \E res \in FitOutcomes :
                  /\ calls' = Append(calls, Call("panel", "PanelOLS.fit"))
                  /\ fits' = Append(fits, Fitted(PanelDesign("panel", pdata'), res))
                  /\ UNCHANGED olsMemo
                  /\ IF res.raises
                     THEN out' = out \o hdr \o <<err>> /\ UNCHANGED coef
                     ELSE out' = out \o hdr \o PanelReport("PanelOLS", res) /\ coef' = res.coef
           ELSE IF NoStatsmodels
           THEN /\ out' = out \o hdr \o <<Elem("panel", "warning", "MissingStatsmodels", <<>>)>>
                /\ coef' = NaN
                /\ UNCHANGED <<olsMemo, calls, fits>>
           ELSE \E res \in OlsOutcomes :
                  /\ calls' = Append(calls, Call("panel", "OLS.fit"))
                  /\ fits' = Append(fits, Fitted(OlsDesign("panel", pdata'), res))
                  /\ olsMemo' = <<res>>
                  /\ IF res.raises
                     THEN out' = out \o hdr \o <<err>> /\ UNCHANGED coef
                     ELSE out' = out \o hdr \o PanelReport("OLS", res) /\ coef' = res.coef
    /\ UNCHANGED << fn_args, fn_ret, sel_aic, HAS_SM, HAS_LM, gdpFile, fdiFile, gdp, fdi, year_cols, df, sel_years, country, d, pvals, varp, exc >>

(* st.slider("Kenaikan FDI (% of GDP)", 0.0, 5.0, 1.0, 0.1), in tenths *)
Uplifts == {0, 10, 20}

(* mutant: the square of the shock *)
SimulateQuadratic(c, uplift) == Val(c) * uplift * uplift

(* pred = coef * uplift: hundredths times tenths, in thousandths *)
Simulate(c, uplift) == Val(c) * uplift

(* mutant: a missing coefficient counts as zero *)
PolicyReportZero(c, uplift) ==
    IF IsNa(c)
    THEN Elem("policy", "success", "forecast", <<Num(0), <<uplift>>, <<0>>>>)
    ELSE Elem("policy", "success", "forecast", <<c, <<uplift>>, <<Simulate(c, uplift)>>>>)

(* the element after a fit that did not raise: the warning when pd.isna(coef),
   else the forecast *)
PolicyReport(c, uplift) ==
    IF IsNa(c)
    THEN Elem("policy", "warning", "NoCoefficient", <<>>)
    ELSE Elem("policy", "success", "forecast", <<c, <<uplift>>, <<Simulate(c, uplift)>>>>)

TabPolicy ==
    /\ pc = "policy"
    /\ pc' = "done"
    /\ LET hdr == Elem("policy", "markdown", "header", <<>>)
       IN  \E uplift \in Uplifts :
           IF NoStatsmodels
           THEN /\ out' = out \o <<hdr, Elem("policy", "warning", "MissingStatsmodels", <<>>)>>
                /\ UNCHANGED <<panel, pdata, coef, olsMemo, calls, fits>>
           ELSE /\ panel' = WithLag(SortIndex(df))
                /\ pdata' = DropnaPanel(panel')
                /\ IF pdata' = <<>>
                   THEN /\ out' = out \o <<hdr, Elem("policy", "warning", "InsufficientData", <<>>)>>
                        /\ UNCHANGED <<coef, olsMemo, calls, fits>>
                   ELSE \E res \in OlsOutcomes :
                          /\ calls' = Append(calls, Call("policy", "OLS.fit"))
                          /\ fits' = Append(fits, Fitted(OlsDesign("policy", pdata'), res))
                          /\ UNCHANGED olsMemo
                          /\ IF res.raises
                             THEN /\ out' = out \o <<hdr, Elem("policy", "error", "EstimationFailure", <<>>)>>
                                  /\ UNCHANGED coef
                             ELSE /\ coef' = res.coef
                                  /\ out' = out \o <<hdr, PolicyReport(res.coef, uplift)>>
    /\ UNCHANGED << fn_args, fn_ret, sel_aic, HAS_SM, HAS_LM, gdpFile, fdiFile, gdp, fdi, year_cols, df, sel_years, country, d, pvals, varp, exc >>

---------------------------------------------------------------------------

Next ==
    \/ LoadCsv
    \/ EnsureRequiredCols
    \/ FilterRows
    \/ YearColumns
    \/ MeltMerge
    \/ Winsorize
    \/ YearRange
    \/ TabCorr
    \/ TabTrend
    \/ TabGranger
    \/ TabVar
    \/ TabPanel
    \/ TabPolicy

Spec == Init /\ [][Next]_vars

---------------------------------------------------------------------------
(* The helpers winsorize and interpret_corr, called on their own *)

(* values of a series, in hundredths, and NaN *)
SeriesValues == {NaN, Num(-200), Num(0), Num(100), Num(300)}
SeriesInputs == UNION {[1..n -> SeriesValues] : n \in 0..MaxSeriesLen}
(* q of winsorize, in percent: the one show() passes, and others below 0.5 *)
QInputs == {WINSOR_Q_PCT, 10, 25, 49}
(* correlation coefficients on and next to the thresholds, in hundredths, and NaN *)
CorrInputs == {NaN} \cup {Num(h) : h \in {-100, -21, -20, 0, 20, 21, 40, 41, 70, 71, 100}}

HelperCalls ==
    {[fn |-> "winsorize", s |-> s, q |-> q] : s \in SeriesInputs, q \in QInputs}
    \cup {[fn |-> "interpret_corr", s |-> <<r>>, q |-> 0] : r \in CorrInputs}

(* show() is not running *)
ShowIdle ==
    /\ HAS_SM = TRUE /\ HAS_LM = TRUE
    /\ gdpFile = NoFile /\ fdiFile = NoFile
    /\ pc = "helper"
    /\ gdp = NoFrame /\ fdi = NoFrame
    /\ year_cols = <<>> /\ df = <<>> /\ sel_years = <<>>
    /\ country = NoCountry /\ d = <<>> /\ pvals = <<>> /\ varp = <<>>
    /\ pdata = <<>> /\ coef = NaN /\ olsMemo = <<>>
    /\ out = <<>> /\ calls = <<>> /\ exc = ""
    /\ sel_aic = <<>> /\ panel = <<>> /\ fits = <<>>

HelperInit ==
    /\ ShowIdle
    /\ fn_args \in HelperCalls
    /\ fn_ret = <<>>

CallWinsorize ==
    /\ pc = "helper" /\ fn_ret = <<>>
    /\ fn_args.fn = "winsorize"
    /\ fn_ret' = <<winsorize(fn_args.s, fn_args.q)>>
    /\ UNCHANGED << HAS_SM, HAS_LM, gdpFile, fdiFile, pc, gdp, fdi, year_cols, df, sel_years, country, d, pvals, varp,
                    pdata, coef, olsMemo, out, calls, exc, sel_aic, panel, fits, fn_args >>

CallInterpretCorr ==
    /\ pc = "helper" /\ fn_ret = <<>>
    /\ fn_args.fn = "interpret_corr"
    /\ fn_ret' = <<interpret_corr(fn_args.s[1])>>
    /\ UNCHANGED << HAS_SM, HAS_LM, gdpFile, fdiFile, pc, gdp, fdi, year_cols, df, sel_years, country, d, pvals, varp,
                    pdata, coef, olsMemo, out, calls, exc, sel_aic, panel, fits, fn_args >>

HelperNext ==
    \/ CallWinsorize
    \/ CallInterpretCorr

HelperSpec == HelperInit /\ [][HelperNext]_vars

---------------------------------------------------------------------------
(* Vocabulary of the properties *)

Analyzers == <<"corr", "granger", "var", "panel", "policy">>

TabElems(t) == LET Keep(e) == e.tab = t IN SelectSeq(out, Keep)
TabCalls(t) == LET Keep(c) == c.tab = t IN SelectSeq(calls, Keep)

Ran(t) == TabElems(t) # <<>>
Failed(t) == exc = t \/ \E i \in 1..Len(out) : out[i].tab = t /\ out[i].kind = "error"

StoppedWith(what) == pc = "stopped" /\ out # <<>> /\ Last(out).what = what

TabStages == {"corr", "trend", "granger", "var", "panel", "policy", "done", "crashed"}
(* positions after the merge went through *)
AfterMerge == pc \in {"winsorize", "range"} \cup TabStages
(* positions after the year columns were determined *)
AfterYears == pc = "melt" \/ AfterMerge \/ StoppedWith("EmptyIntersection") \/ StoppedWith("EmptyJoin")

(* nothing downstream of the loader has happened *)
NothingDownstream ==
    /\ df = <<>> /\ sel_years = <<>> /\ d = <<>> /\ pdata = <<>> /\ pvals = <<>>
    /\ calls = <<>> /\ exc = ""

(* the two spellings of one country *)
Canon(c) == IF c \in {"Viet Nam", "Vietnam"} THEN "Vietnam" ELSE c

(* the source table holds a number for country c (under either spelling, in a row
   of the target indicator) in the year column of y *)
HasGdpValue(c, y) ==
    \E i \in 1..Len(gdpFile.rows) :
        LET r == gdpFile.rows[i]
        IN  /\ r.country \in ASEAN /\ Canon(r.country) = c
            /\ r.indicator = GDP_GROWTH_IND
            /\ Str(y) \in gdpFile.cols
            /\ r.vals[Str(y)].k = "num"

HasFdiValue(c, y) ==
    \E i \in 1..Len(fdiFile.rows) :
        LET r == fdiFile.rows[i]
        IN  /\ r.country \in ASEAN /\ Canon(r.country) = c
            /\ r.indicator \in {FDI_INFLOW_IND, FDI_OUTFLOW_IND}
            /\ Str(y) \in fdiFile.cols
            /\ r.vals[Str(y)].k = "num"

(* number of observations of country c in df *)
NObs(c) == Cardinality({i \in 1..Len(df) : df[i].country = c})

---------------------------------------------------------------------------
(* C1: a failure raised while an analyzer (Correlation, Granger, VAR/IRF, Panel,
   Policy) runs is contained in it, and every analyzer after it in show() still
   runs in the same invocation. *)
C1_FaultIsolation ==
    \A a \in 1..Len(Analyzers) :
        Failed(Analyzers[a]) =>
            /\ exc # Analyzers[a]
            /\ \A b \in (a + 1)..Len(Analyzers) :
                   pc \in {"done", "crashed"} => Ran(Analyzers[b])

(* C2: the coefficient the Policy Simulator multiplies by the shock is the
   coefficient the Panel Regression Estimator reported in the same run, and the
   simulator makes no estimation call of its own. *)
C2_SimulatorReadsPanelCoef ==
    \A i \in 1..Len(out) :
        (out[i].tab = "policy" /\ out[i].kind = "success") =>
            /\ \E j \in 1..Len(out) :
                  /\ out[j].tab = "panel" /\ out[j].kind = "success"
                  /\ out[j].val[1] = out[i].val[1]
            /\ TabCalls("policy") = <<>>

(* C3: the joined table holds at most one observation per (country, year). *)
C3_UniquePerCountryYear ==
    \A i, j \in 1..Len(df) :
        (df[i].country = df[j].country /\ df[i].Year = df[j].Year) => i = j

(* C4: every row of the joined table has a country of the Country Set and both
   values present, and a (country, year) for which a source value is missing or
   non-numeric has no row. *)
C4_JoinedRowsComplete ==
    \A i \in 1..Len(df) :
        /\ df[i].country \in ASEAN
        /\ ~IsNa(df[i].GDP_Growth)
        /\ ~IsNa(df[i].FDI_PctGDP)
        /\ HasGdpValue(df[i].country, df[i].Year)
        /\ HasFdiValue(df[i].country, df[i].Year)

(* C4 witness: the merge went through although a country of the set has a year
   with an FDI number and no GDP number, and the GDP table has a foreign row. *)
C4_Witness ==
    /\ pc = "winsorize" /\ df # <<>>
    /\ \E c \in ASEAN, y \in Years : HasFdiValue(c, y) /\ ~HasGdpValue(c, y)
    /\ \E i \in 1..Len(gdpFile.rows) : gdpFile.rows[i].country \notin ASEAN

LacksRequired(file) == ~({COUNTRY_NAME, INDICATOR_NAME} \subseteq file.cols)

(* C5: when a source table lacks 'Country Name' or 'Indicator Name', the load
   stops with the schema error and nothing else: no filter, join or analyzer. *)
C5_SchemaErrorHalts ==
    (gdpFile.exists /\ fdiFile.exists /\ (LacksRequired(gdpFile) \/ LacksRequired(fdiFile))) =>
        /\ pc \in {"load", "schema", "stopped"}
        /\ pc = "stopped" => out = <<Elem("load", "error", "SchemaError", <<>>)>>
        /\ pc # "stopped" => out = <<>>
        /\ gdp \in {NoFrame, gdpFile}
        /\ fdi \in {NoFrame, fdiFile}
        /\ year_cols = <<>>
        /\ NothingDownstream

(* C5 witness: only the FDI table lacks a required column, and show() stopped. *)
C5_Witness ==
    /\ StoppedWith("SchemaError")
    /\ gdpFile.exists /\ ~LacksRequired(gdpFile)
    /\ fdiFile.exists /\ LacksRequired(fdiFile)

(* the year labels present in both source tables *)
CommonYears == {y \in Years : Str(y) \in gdpFile.cols /\ Str(y) \in fdiFile.cols}

(* C6: the year columns are exactly the year-like labels present in both tables,
   and an empty intersection stops show() before any melt, join or analyzer. *)
C6_YearColumns ==
    /\ AfterYears =>
          /\ Range(year_cols) = {Str(y) : y \in CommonYears}
          /\ Len(year_cols) = Cardinality(CommonYears)
    /\ (AfterYears /\ CommonYears = {}) =>
          /\ pc = "stopped"
          /\ out = <<Elem("load", "error", "EmptyIntersection", <<>>)>>
          /\ NothingDownstream
    /\ StoppedWith("EmptyIntersection") => CommonYears = {}

(* C6 witness: both tables have year columns, none in common, and show() stopped. *)
C6_Witness ==
    /\ StoppedWith("EmptyIntersection")
    /\ \E y \in Years : Str(y) \in gdpFile.cols
    /\ \E y \in Years : Str(y) \in fdiFile.cols

(* some (country, year) has a number in both source tables *)
JoinUsable == \E c \in ASEAN, y \in CommonYears : HasGdpValue(c, y) /\ HasFdiValue(c, y)

(* C7: when the inner join yields no usable row, show() stops with the
   empty-join error; winsorization and the analyzers do not run. *)
C7_EmptyJoinHalts ==
    /\ AfterMerge => JoinUsable
    /\ StoppedWith("EmptyJoin") =>
          /\ ~JoinUsable
          /\ out = <<Elem("load", "error", "EmptyJoin", <<>>)>>
          /\ NothingDownstream

(* C7 witness: both filtered frames hold rows of one country, and show() stopped
   on the empty join. *)
C7_Witness ==
    /\ StoppedWith("EmptyJoin")
    /\ \E i \in 1..Len(gdp.rows), j \in 1..Len(fdi.rows) :
          gdp.rows[i].country = fdi.rows[j].country

---------------------------------------------------------------------------
(* Causality Tester *)

Entities == {df[i].country : i \in 1..Len(df)}
GrangerHeader == Elem("granger", "markdown", "header", <<>>)
GrangerCall == Call("granger", "grangercausalitytests")

(* the Granger tab shows a table of exactly the lags 1, 2, 3, one p-value each *)
IsPValueTable(e) ==
    /\ e.tab = "granger" /\ e.kind = "dataframe"
    /\ Len(e.val) = 3
    /\ \A k \in 1..3 : e.val[k][1] = <<k>> /\ Len(e.val[k]) = 2

GrangerVerdicts ==
    LET Keep(e) == e.tab = "granger" /\ e.what \in {"detected", "not detected"}
    IN  SelectSeq(out, Keep)

(* C8 as stated: for an entity with fewer than 8 paired observations the
   Causality Tester gives the 'insufficient data' warning, runs no test, emits no
   p-value and no verdict, and does not crash. *)
C8_Original ==
    (pc = "var" /\ \A c \in Entities : NObs(c) < 8) =>
        /\ TabElems("granger") =
              <<GrangerHeader, Elem("granger", "warning", "InsufficientData", <<>>)>>
        /\ TabCalls("granger") = <<>>
        /\ pvals = <<>>
        /\ exc = ""

(* C8 amended: with statsmodels available, the entity selected in the Granger tab
   having fewer than 8 paired observations gives the 'insufficient data' warning,
   no test, no p-value, no verdict and no crash; without statsmodels the tab gives
   the missing-library warning instead, and likewise runs nothing. *)
C8_InsufficientData ==
    pc = "var" =>
        /\ (HAS_SM /\ NObs(country) < 8) =>
              /\ TabElems("granger") =
                    <<GrangerHeader, Elem("granger", "warning", "InsufficientData", <<>>)>>
              /\ TabCalls("granger") = <<>>
              /\ pvals = <<>>
              /\ exc = ""
        /\ ~HAS_SM =>
              /\ TabElems("granger") =
                    <<GrangerHeader, Elem("granger", "warning", "MissingStatsmodels", <<>>)>>
              /\ TabCalls("granger") = <<>>
              /\ pvals = <<>>
              /\ exc = ""

(* C8 witness: statsmodels is there, the selected entity has 7 observations, and
   the Granger tab has ended with its warning. *)
C8_Witness ==
    /\ pc = "var" /\ HAS_SM /\ NObs(country) = 7
    /\ Last(TabElems("granger")).what = "InsufficientData"

(* C9 as stated: for every entity with at least 8 paired observations the
   Causality Tester runs the test for lags 1, 2, 3 and yields exactly one p-value
   per lag. *)
C9_Original ==
    (pc = "var" /\ Entities # {} /\ \A c \in Entities : NObs(c) >= 8) =>
        /\ TabCalls("granger") = <<GrangerCall>>
        /\ \E i \in 1..Len(out) : IsPValueTable(out[i])

(* C9 amended: with statsmodels available, for the selected entity with at least
   8 paired observations the Causality Tester calls the test once with maximum
   lag 3; when the call returns, the table holds exactly one p-value for each of
   the lags 1, 2, 3; when it raises, an error is reported and no p-value. *)
C9_TestPerLag ==
    (pc = "var" /\ HAS_SM /\ NObs(country) >= 8) =>
        /\ TabCalls("granger") = <<GrangerCall>>
        /\ LET es == TabElems("granger")
           IN  \/ /\ Len(es) = 3
                  /\ IsPValueTable(es[2])
                  /\ \A k \in 1..3 : es[2].val[k][2] = pvals[k]
                  /\ Len(pvals) = 3
               \/ /\ es = <<GrangerHeader, Elem("granger", "error", "EstimationFailure", <<>>)>>
                  /\ pvals = <<>>

(* C9 witness: the selected entity has exactly 8 observations and the table of
   p-values is shown. *)
C9_Witness ==
    /\ pc = "var" /\ HAS_SM /\ NObs(country) = 8
    /\ Len(TabElems("granger")) = 3
    /\ IsPValueTable(TabElems("granger")[2])

(* the non-NaN p-values of a table, in thousandths *)
TableP(e) == {e.val[k][2][1] : k \in {j \in 1..3 : e.val[j][2] # <<>>}}

(* C10: the verdict is 'detected' exactly when the minimum of the p-values of
   lags 1, 2, 3 is strictly below 0.05, 'not detected' otherwise, and exactly one
   verdict is emitted per completed test. *)
C10_Verdict ==
    \A i \in 1..Len(out) :
        (out[i].tab = "granger" /\ out[i].kind = "dataframe") =>
            /\ Len(GrangerVerdicts) = 1
            /\ LET ps == TableP(out[i])
                   detected == /\ ps # {}
                               /\ (CHOOSE m \in ps : \A q \in ps : m <= q) < 50
               IN  /\ detected => GrangerVerdicts[1] = Elem("granger", "success", "detected", <<>>)
                   /\ ~detected => GrangerVerdicts[1] = Elem("granger", "warning", "not detected", <<>>)

(* C10 witness: a completed test whose least p-value is exactly 0.05, with the
   verdict 'not detected'. *)
C10_Witness ==
    \E i \in 1..Len(out) :
        /\ out[i].tab = "granger" /\ out[i].kind = "dataframe"
        /\ TableP(out[i]) = {50}
        /\ Len(GrangerVerdicts) = 1
        /\ GrangerVerdicts[1].what = "not detected"


---------------------------------------------------------------------------
VarHeader == Elem("var", "markdown", "header", <<>>)
VarSelectCall == Call("var", "select_order")
VarFitCall == Call("var", "fit")

(* the impulse-response charts of the VAR tab *)
IrfCharts ==
    LET Keep(e) == e.tab = "var" /\ e.kind = "chart"
    IN  SelectSeq(out, Keep)

(* the VAR tab has just ended *)
AfterVar == pc = "panel"

(* C11 as stated: for an entity with fewer than 10 paired observations the VAR/IRF
   Estimator gives the insufficient-data warning, fits no model and produces no
   impulse-response trajectory; with 10 or more it attempts the fit. *)
C11_Original ==
    AfterVar =>
        /\ (\A c \in Entities : NObs(c) < 10) =>
              /\ TabElems("var") =
                    <<VarHeader, Elem("var", "warning", "InsufficientData", <<>>)>>
              /\ TabCalls("var") = <<>>
              /\ IrfCharts = <<>>
        /\ (\A c \in Entities : NObs(c) >= 10) => TabCalls("var") # <<>>

(* C11 amended: with statsmodels available, the entity selected in the VAR tab
   having fewer than 10 paired observations gives the insufficient-data warning, no
   order selection, no fit and no impulse-response trajectory, and with 10 or more
   the estimation is attempted (order selection, then the fit when the selection
   returns); without statsmodels the tab gives the missing-library warning and
   attempts nothing, whatever the number of observations. *)
C11_InsufficientData ==
    AfterVar =>
        /\ (HAS_SM /\ NObs(country) < 10) =>
              /\ TabElems("var") =
                    <<VarHeader, Elem("var", "warning", "InsufficientData", <<>>)>>
              /\ TabCalls("var") = <<>>
              /\ IrfCharts = <<>>
              /\ varp = <<>>
        /\ (HAS_SM /\ NObs(country) >= 10) =>
              /\ TabCalls("var") \in {<<VarSelectCall>>, <<VarSelectCall, VarFitCall>>}
              /\ Len(TabCalls("var")) = 1 =>
                    TabElems("var") =
                       <<VarHeader, Elem("var", "error", "EstimationFailure", <<>>)>>
        /\ ~HAS_SM =>
              /\ TabElems("var") =
                    <<VarHeader, Elem("var", "warning", "MissingStatsmodels", <<>>)>>
              /\ TabCalls("var") = <<>>
              /\ IrfCharts = <<>>

(* C11 witness: statsmodels is there, the selected entity has 9 observations, and
   the VAR tab has ended with its warning. *)
C11_Witness ==
    /\ AfterVar /\ HAS_SM
    /\ NObs(country) = 9
    /\ Last(out) = Elem("var", "warning", "InsufficientData", <<>>)

(* C12: in the VAR/IRF Estimator the lag order is the AIC-selected order among
   1..3, and whenever the lag-order selection fails or returns a non-positive order
   the model is fitted with order 1. *)
C12_LagOrder ==
    (AfterVar /\ VarSelectCall \in Range(calls)) =>
        /\ VarFitCall \in Range(calls)
        /\ varp # <<>>
        /\ IF sel_aic # <<>> /\ sel_aic[1] # <<>> /\ sel_aic[1][1] >= 1
           THEN varp[1] = sel_aic[1][1] /\ varp[1] \in 1..3
           ELSE varp[1] = 1

(* C13: a successful VAR/IRF run reports the response of growth (variable 0) to a
   unit shock in investment_share (variable 1) as a trajectory with exactly one
   value for each horizon step 0, 1, 2, 3, 4, 5. *)
C13_IrfTrajectory ==
    \A k \in 1..Len(IrfCharts) :
        /\ Len(IrfCharts[k].val) = 6
        /\ \A i \in 1..6 : IrfCharts[k].val[i] = <<i - 1, <<i - 1, 0, 1>>>>

(* C13 witness: the VAR tab has fitted a model and drawn its trajectory. *)
C13_Witness ==
    /\ AfterVar
    /\ VarFitCall \in Range(calls)
    /\ Len(IrfCharts) = 1
    /\ Last(out) = IrfCharts[1]


---------------------------------------------------------------------------
(* the panel tab has ended *)
AfterPanel == pc \in {"policy", "done"}

PanelCountries == {panel[i].country : i \in 1..Len(panel)}

(* C14: in the lag-augmented panel, growth_lag1 is absent in the first row of
   every entity, and in every other row it is the growth of the same entity's
   immediately preceding row; it is never taken from a row of another entity. *)
C14_LagFromPrecedingRow ==
    AfterPanel =>
        \A i \in 1..Len(panel) :
            IF i = 1 \/ panel[i - 1].country # panel[i].country
            THEN IsNa(panel[i].GDP_Growth_l1)
            ELSE panel[i].GDP_Growth_l1 = panel[i - 1].GDP_Growth

(* C14 witness: a panel of two entities, each with a first row and later rows. *)
C14_Witness ==
    /\ AfterPanel
    /\ Cardinality(PanelCountries) = 2
    /\ \A c \in PanelCountries : Len(RowsOf(panel, c)) >= 3
    /\ \E i \in 2..Len(panel) :
          panel[i - 1].country # panel[i].country /\ IsNa(panel[i].GDP_Growth_l1)

(* the panel holds one row per entity and year *)
UniqueKeys ==
    \A i, j \in 1..Len(panel) :
        (panel[i].country = panel[j].country /\ panel[i].Year = panel[j].Year) => i = j

(* C15: for every row (entity, year t) of the lag-augmented panel, growth_lag1 is
   the growth of the same entity at year t-1, and is absent when the entity has no
   observation at year t-1 (panels with interior gaps included); stated for the
   panels that hold one row per entity and year. *)
C15_LagIsPreviousYear ==
    (AfterPanel /\ UniqueKeys) =>
        \A i \in 1..Len(panel) :
            LET before == {j \in 1..Len(panel) :
                              /\ panel[j].country = panel[i].country
                              /\ panel[j].Year = panel[i].Year - 1}
            IN  IF before = {}
                THEN IsNa(panel[i].GDP_Growth_l1)
                ELSE \E j \in before : panel[i].GDP_Growth_l1 = panel[j].GDP_Growth

(* the rows of the panel in which growth, investment share and lag are present *)
CompleteRows ==
    LET Keep(r) == ~IsNa(r.GDP_Growth) /\ ~IsNa(r.FDI_PctGDP) /\ ~IsNa(r.GDP_Growth_l1)
    IN  SelectSeq(panel, Keep)

(* the observations (growth, investment share, lagged growth) a fit was given *)
RowsUsed(f) ==
    [i \in 1..Len(f.y) |-> <<f.y[i], f.X[i].FDI_PctGDP, f.X[i].GDP_Growth_l1>>]

(* C16: the Panel Regression Estimator and the Policy Simulator estimate on
   exactly the rows of the lag-augmented panel in which growth, investment_share
   and growth_lag1 are all present, with the values of the panel: a row lacking
   growth_lag1 is excluded, and no lag is imputed. *)
C16_ListwiseDeletion ==
    fits # <<>> =>
        LET cr == CompleteRows
            complete == [i \in 1..Len(cr) |->
                            <<cr[i].GDP_Growth, cr[i].FDI_PctGDP, cr[i].GDP_Growth_l1>>]
            lagged == Cardinality({i \in 1..Len(panel) : ~IsNa(panel[i].GDP_Growth_l1)})
        IN  \A k \in 1..Len(fits) :
                LET used == RowsUsed(fits[k])
                IN  /\ Len(fits[k].X) = Len(fits[k].y)
                    /\ used = complete
                    /\ \A i \in 1..Len(used) : \A j \in 1..3 : ~IsNa(used[i][j])
                    /\ Len(used) = lagged

(* C16 witness: both tabs have fitted, and the panel has rows without a lag. *)
C16_Witness ==
    /\ pc = "done"
    /\ Len(fits) = 2
    /\ fits[1].tab = "panel" /\ fits[2].tab = "policy"
    /\ \E i \in 1..Len(panel) : IsNa(panel[i].GDP_Growth_l1)
    /\ Len(fits[2].y) >= 2

(* the fits of the panel tab that are the pooled-OLS fallback *)
FallbackFits ==
    LET Keep(f) == f.tab = "panel" /\ f.model = "OLS"
    IN  SelectSeq(fits, Keep)

(* C17: whenever the Panel Regression Estimator uses the pooled-OLS fallback
   because the panel library is unavailable, its output is labeled as the fallback
   model, and is never presented as the fixed-effects result. *)
C17_FallbackLabelled ==
    (AfterPanel /\ ~HAS_LM /\ FallbackFits # <<>>) =>
        /\ \E i \in 1..Len(TabElems("panel")) :
              /\ TabElems("panel")[i].kind \in {"markdown", "caption", "warning", "info"}
              /\ TabElems("panel")[i].what = "Fallback"
        /\ \A i \in 1..Len(TabElems("panel")) :
              TabElems("panel")[i].what # "Fixed Effects"

(* C18: the fallback OLS of the Panel Regression Estimator is computed on exactly
   the rows (the lag-augmented, listwise-deleted panel) that the fixed-effects
   path uses for the same input and year range. *)
C18_FallbackSameRows ==
    \A k \in 1..Len(FallbackFits) :
        RowsUsed(FallbackFits[k]) = RowsUsed(PanelDesign("panel", BuildPdata(df)))

(* C18 witness: the fallback has been fitted on a panel of several rows, some rows
   of the lag-augmented panel having been deleted. *)
C18_Witness ==
    /\ AfterPanel /\ ~HAS_LM
    /\ Len(FallbackFits) = 1
    /\ Len(FallbackFits[1].y) >= 2
    /\ Len(FallbackFits[1].y) < Len(panel)

(* the coefficient messages of the panel tab *)
CoefficientReports ==
    LET Keep(e) == e.tab = "panel" /\ e.kind = "success"
    IN  SelectSeq(out, Keep)

(* C19: the significance label is evaluated top-down with strict thresholds:
   p < 0.01 very significant, else p < 0.05 significant, else p < 0.10 indicative,
   else not significant; a p-value on a threshold takes the weaker label. *)
C19_SignificanceLabel ==
    \A k \in 1..Len(CoefficientReports) :
        LET e == CoefficientReports[k]
            p == e.val[2]
        IN  ~IsNa(p) =>
               /\ e.text = (IF p[1] < 10 THEN "p < 0.01 (sangat signifikan)"
                            ELSE IF p[1] < 50 THEN "p < 0.05 (signifikan)"
                            ELSE IF p[1] < 100 THEN "p < 0.10 (indikatif)"
                            ELSE "p = (tidak signifikan)")
               /\ p[1] = 10 => e.text = "p < 0.05 (signifikan)"
               /\ p[1] = 50 => e.text = "p < 0.10 (indikatif)"
               /\ p[1] = 100 => e.text = "p = (tidak signifikan)"

(* C19 witness: a coefficient reported with a p-value of exactly 0.05. *)
C19_Witness ==
    \E k \in 1..Len(CoefficientReports) :
        /\ CoefficientReports[k].val[2] = <<50>>
        /\ CoefficientReports[k].text = "p < 0.10 (indikatif)"

(* the fit of the panel tab has fewer observations than coefficients (intercept,
   investment share, lagged growth): its design matrix is rank deficient *)
DegenerateFit ==
    /\ pdata # <<>> /\ Len(pdata) < 3
    /\ \E k \in 1..Len(fits) : fits[k].tab = "panel"

(* C20: when the lag-augmented panel is empty or the fit is numerically
   degenerate, the Panel Regression Estimator reports a warning or error message,
   reports no coefficient, and does not abort show(). *)
C20_DegenerateReported ==
    (pc = "policy" /\ (pdata = <<>> \/ DegenerateFit)) =>
        /\ \E i \in 1..Len(TabElems("panel")) :
              TabElems("panel")[i].kind \in {"warning", "error"}
        /\ CoefficientReports = <<>>
        /\ exc = ""


---------------------------------------------------------------------------
(* a call of the helper fn has returned *)
Returned(fn) == fn_ret # <<>> /\ fn_args.fn = fn

(* C23: winsorize(s, q) with 0 < q < 0.5: every non-missing output value lies in
   [quantile(q), quantile(1-q)] of the input series, every input value already in
   that interval is returned unchanged, and a series with no non-missing value is
   returned unchanged. *)
C23_WinsorizeBand ==
    Returned("winsorize") =>
        LET s == fn_args.s
            o == fn_ret[1]
        IN  /\ Len(o) = Len(s)
            /\ (\A i \in 1..Len(s) : IsNa(s[i])) => o = s
            /\ (\E i \in 1..Len(s) : ~IsNa(s[i])) =>
                  LET lo == Quantile(s, fn_args.q)
                      hi == Quantile(s, 100 - fn_args.q)
                  IN  \A i \in 1..Len(s) :
                        /\ IsNa(o[i]) <=> IsNa(s[i])
                        /\ ~IsNa(o[i]) => (lo <= Val(o[i]) /\ Val(o[i]) <= hi)
                        /\ (~IsNa(s[i]) /\ lo <= Val(s[i]) /\ Val(s[i]) <= hi) => o[i] = s[i]

(* C23 witness: a series with a missing value, of which winsorize lowers one value
   and leaves another as it is. *)
C23_Witness ==
    /\ Returned("winsorize")
    /\ \E i, j, k \in 1..Len(fn_args.s) :
          /\ IsNa(fn_args.s[i])
          /\ ~IsNa(fn_args.s[j]) /\ Val(fn_ret[1][j]) < Val(fn_args.s[j])
          /\ ~IsNa(fn_args.s[k]) /\ fn_ret[1][k] = fn_args.s[k]

(* C25: interpret_corr(r) is evaluated top-down with strict thresholds: r > 0.70
   strong positive, else r > 0.40 moderate positive, else r > 0.20 weak positive,
   else r < -0.20 negative, else neutral (every r in [-0.20, 0.20] is neutral); NaN
   gives neutral with the 'cannot be computed' note. *)
C25_Interpretation ==
    Returned("interpret_corr") =>
        LET r == fn_args.s[1]
            label == fn_ret[1][1]
            note == fn_ret[1][2]
        IN  /\ Len(fn_ret[1]) = 2
            /\ IsNa(r) => (label = "neutral" /\ note = "tidak dapat dihitung")
            /\ ~IsNa(r) =>
                  /\ label = (IF r[1] > 70 THEN "strong positive"
                              ELSE IF r[1] > 40 THEN "moderate positive"
                              ELSE IF r[1] > 20 THEN "weak positive"
                              ELSE IF r[1] < -20 THEN "negative"
                              ELSE "neutral")
                  /\ (-20 <= r[1] /\ r[1] <= 20) => label = "neutral"
                  /\ note # "tidak dapat dihitung"

(* C25 witness: a coefficient of exactly -0.20 has been interpreted as neutral. *)
C25_Witness ==
    /\ Returned("interpret_corr")
    /\ fn_args.s[1] = <<-20>>
    /\ fn_ret[1][1] = "neutral"

(* C26: interpret_corr(r) returns 'moderate positive' for r exactly 0.40. *)
C26_ModerateAtForty ==
    (Returned("interpret_corr") /\ fn_args.s[1] = <<40>>) =>
        fn_ret[1][1] = "moderate positive"


---------------------------------------------------------------------------
(* the forecasts of the policy tab *)
Forecasts ==
    LET Keep(e) == e.tab = "policy" /\ e.what = "forecast"
    IN  SelectSeq(out, Keep)

(* the fits of the policy tab *)
PolicyFits ==
    LET Keep(f) == f.tab = "policy"
    IN  SelectSeq(fits, Keep)

(* the simulator has no coefficient: tooling missing, empty post-lag panel, failed
   fit, or a missing coefficient value *)
NoCoefficient ==
    \/ ~HAS_SM
    \/ pdata = <<>>
    \/ PolicyFits = <<>>
    \/ PolicyFits[1].raised
    \/ IsNa(PolicyFits[1].coef)

(* C21: when no coefficient is available (tooling missing, empty post-lag panel,
   failed fit, or a missing coefficient value) the Policy Simulator reports that
   it cannot simulate and emits no forecast; it never emits a forecast computed
   from a zero put in place of the missing coefficient. *)
C21_NotSimulatable ==
    pc = "done" =>
        /\ NoCoefficient =>
              /\ Forecasts = <<>>
              /\ Len(TabElems("policy")) = 2
              /\ TabElems("policy")[2].kind \in {"warning", "error"}
        /\ \A k \in 1..Len(Forecasts) :
              /\ ~NoCoefficient
              /\ Forecasts[k].val[1] = PolicyFits[1].coef

(* C21 witness: the simulator's fit returned without a coefficient, and the tab
   ended with its warning. *)
C21_Witness ==
    /\ pc = "done" /\ HAS_SM
    /\ PolicyFits # <<>> /\ ~PolicyFits[1].raised /\ IsNa(PolicyFits[1].coef)
    /\ Last(out) = Elem("policy", "warning", "NoCoefficient", <<>>)

(* C22: the forecast is the coefficient times the shock, and is linear and
   homogeneous in the shock: simulate(c, 2*s) = 2 * simulate(c, s), and
   simulate(c, 0) = 0. *)
C22_LinearForecast ==
    \A k \in 1..Len(Forecasts) :
        LET c == Forecasts[k].val[1]
            s == Forecasts[k].val[2][1]
            v == Forecasts[k].val[3][1]
        IN  /\ v = c[1] * s
            /\ Simulate(c, 2 * s) = 2 * v
            /\ Simulate(c, 0) = 0
            /\ s = 0 => v = 0

(* C22 witness: a forecast for the shock 2.0, twice the forecast for the shock 1.0
   with the same coefficient 1.20. *)
C22_Witness ==
    /\ pc = "done" /\ Len(Forecasts) = 1
    /\ Forecasts[1].val = << <<120>>, <<20>>, <<2400>> >>
    /\ Simulate(<<120>>, 10) = 1200

(* the joined frame before winsorization, from the filtered tables *)
JoinedRaw ==
    DropnaJoined(Merge(CoerceLong(Melt(gdp, year_cols)), CoerceLong(Melt(fdi, year_cols))))

(* JoinedRaw with each value column winsorized over the country's own rows *)
WinsorizedJoin ==
    LET raw == JoinedRaw
        cs == {raw[i].country : i \in 1..Len(raw)}
        wg == [c \in cs |-> winsorize(Column(RowsOf(raw, c), "GDP_Growth"), 1)]
        wf == [c \in cs |-> winsorize(Column(RowsOf(raw, c), "FDI_PctGDP"), 1)]
    IN  [i \in 1..Len(raw) |->
           [country    |-> raw[i].country,
            Year       |-> raw[i].Year,
            GDP_Growth |-> wg[raw[i].country][GroupPos(raw, i)],
            FDI_PctGDP |-> wf[raw[i].country][GroupPos(raw, i)]]]

(* C24: winsorization is applied per entity: the bounds used for an entity's
   values are computed from that entity's own values only, so the winsorized
   values of an entity do not depend on the values of any other entity. *)
C24_PerEntity ==
    pc = "range" => df = WinsorizedJoin

(* C24 witness: two entities have been winsorized, and a value has been clipped. *)
C24_Witness ==
    /\ pc = "range"
    /\ Cardinality(Entities) = 2
    /\ df # JoinedRaw

(* the tables have been filtered and renamed *)
AfterFilter == pc = "years" \/ AfterYears

(* C27: alias canonicalization is applied to both tables before the join: a
   country listed as 'Viet Nam' in one table and 'Vietnam' in the other is joined
   on (country, year) as one entity, and after loading no row carries the name
   'Viet Nam'. *)
C27_AliasCanonical ==
    /\ AfterFilter =>
          /\ \A i \in 1..Len(gdp.rows) : gdp.rows[i].country # "Viet Nam"
          /\ \A i \in 1..Len(fdi.rows) : fdi.rows[i].country # "Viet Nam"
          /\ \A i \in 1..Len(df) : df[i].country # "Viet Nam"
    /\ pc = "winsorize" =>
          \A y \in Years :
              (HasGdpValue("Vietnam", y) /\ HasFdiValue("Vietnam", y)) =>
                  \E i \in 1..Len(df) : df[i].country = "Vietnam" /\ df[i].Year = y

(* C27 witness: 'Viet Nam' in the GDP file and 'Vietnam' in the FDI file, joined
   as Vietnam. *)
C27_Witness ==
    /\ pc = "winsorize"
    /\ \E i \in 1..Len(gdpFile.rows) : gdpFile.rows[i].country = "Viet Nam"
    /\ \A i \in 1..Len(gdpFile.rows) : gdpFile.rows[i].country # "Vietnam"
    /\ \E i \in 1..Len(fdiFile.rows) : fdiFile.rows[i].country = "Vietnam"
    /\ \A i \in 1..Len(fdiFile.rows) : fdiFile.rows[i].country # "Viet Nam"
    /\ \E i \in 1..Len(df) : df[i].country = "Vietnam"

(* C28: winsorization runs before the year-range filter: the value of every
   observation that stays in the selected range is the one winsorized over its
   entity's whole joined history, whatever the range. *)
C28_WinsorizeBeforeFilter ==
    pc = "corr" =>
        LET InRange(r) == r.Year >= sel_years[1] /\ r.Year <= sel_years[2]
        IN  df = SelectSeq(WinsorizedJoin, InRange)

(* C28 witness: a range shorter than the history has been selected, and a value
   in the range is one that winsorization clipped. *)
C28_Witness ==
    /\ pc = "corr"
    /\ Len(df) < Len(JoinedRaw)
    /\ \E i \in 1..Len(df) : \A j \in 1..Len(JoinedRaw) : df[i] # JoinedRaw[j]

(* C29: the lag is built after the year-range filter: for every entity, the
   earliest observation inside the selected range has growth_lag1 absent and is
   excluded from the panel and simulation estimators, also when the entity has an
   observation in the year just before the range. *)
C29_LagAfterFilter ==
    AfterPanel =>
        LET cs == PanelCountries
        IN  /\ \A c \in cs :
                  LET inside == {i \in 1..Len(panel) :
                                    panel[i].country = c /\ panel[i].Year >= sel_years[1]}
                      first == CHOOSE i \in inside : \A j \in inside : i <= j
                  IN  /\ inside # {}
                      /\ IsNa(panel[first].GDP_Growth_l1)
                      /\ \A k \in 1..Len(pdata) : pdata[k] # panel[first]
            /\ \A k \in 1..Len(fits) : Len(fits[k].y) <= Len(panel) - Cardinality(cs)

(* C29 witness: an entity observed in the year just before the selected range,
   and both estimators fitted. *)
C29_Witness ==
    /\ pc = "done" /\ Len(fits) = 2
    /\ \E c \in PanelCountries :
          HasGdpValue(c, sel_years[1] - 1) /\ HasFdiValue(c, sel_years[1] - 1)

(* C30: when statsmodels is unavailable, the Granger, VAR/IRF and Policy tabs each
   emit a warning and run no estimation, and the Panel tab without either library
   emits a warning and reports no coefficient; none of the four raises. *)
C30_LibraryMissing ==
    ~HAS_SM =>
        /\ \A t \in {"granger", "var", "policy"} :
              Ran(t) =>
                 /\ TabElems(t) = << Elem(t, "markdown", "header", <<>>),
                                     Elem(t, "warning", "MissingStatsmodels", <<>>) >>
                 /\ TabCalls(t) = <<>>
                 /\ \A k \in 1..Len(fits) : fits[k].tab # t
        /\ (~HAS_LM /\ AfterPanel) =>
              /\ \E i \in 1..Len(TabElems("panel")) : TabElems("panel")[i].kind = "warning"
              /\ CoefficientReports = <<>>
              /\ TabCalls("panel") = <<>>
        /\ exc \notin {"granger", "var", "panel", "policy"}
        /\ pc = "done" => \A t \in {"granger", "var", "panel", "policy"} : Ran(t)

(* C30 witness: neither library is there, the panel is not empty, and show() has
   run to its end. *)
C30_Witness ==
    /\ pc = "done" /\ ~HAS_SM /\ ~HAS_LM
    /\ DropnaPanel(panel) # <<>>
    /\ Last(out) = Elem("policy", "warning", "MissingStatsmodels", <<>>)

=============================================================================
